---------------------------- MODULE Spec2Model ----------------------------
(* A state-machine model of the browser game client in src/game.js        *)
(* (class GameClient).  One action per event handler the client registers *)
(* (transport events, window events, image-load callbacks, key and click  *)
(* events, the animation-frame callback); every handler is modelled with   *)
(* all the calls it makes (updateViewport, draw, send...).                *)
(*                                                                        *)
(* Numbers.  Lengths and coordinates are held in half pixels (Px(n) is n  *)
(* pixels), so that viewportWidth / 2 of an odd window width is exact.    *)
(* The two quantities the code advances by repeated IEEE-754 double       *)
(* arithmetic (particle.life, animationTime) are held as doubles: a sign  *)
(* and a two-limb magnitude counting a fixed power-of-two unit, rounded   *)
(* to 53 significant bits, ties to even, after every operation.           *)
EXTENDS Integers, Sequences, FiniteSets, TLC

VARIABLES
    worldImage,        \* state of the Image behind this.worldImage
    myPlayerId,        \* this.myPlayerId (Null before a successful join)
    players,           \* this.players: id -> player record
    avatars,           \* this.avatars: name -> avatar definition
    readyState,        \* this.websocket.readyState
    isConnected,       \* this.isConnected
    avatarImageCache,  \* this.avatarImageCache: cache key -> image state
    keyState,          \* this.keyState
    isMoving,          \* this.isMoving
    animationId,       \* this.animationId: TRUE while a frame is requested
    targetX, targetY,  \* this.targetX, this.targetY
    isClickMoving,     \* this.isClickMoving
    animationTime,     \* this.animationTime (a double)
    particles,         \* this.particles (sequence of particles)
    viewportX, viewportY, viewportWidth, viewportHeight,
    sent,              \* what the last event's handler gave websocket.send
    drawn,             \* what the last draw() put on the canvas: per player
                       \* drawn, the cached image blitted, the label, the glow
    last               \* the last event

vars == <<worldImage, myPlayerId, players, avatars, readyState, isConnected,
          avatarImageCache, keyState, isMoving, animationId, targetX, targetY,
          isClickMoving, animationTime, particles, viewportX, viewportY,
          viewportWidth, viewportHeight, sent, drawn, last>>

Null == "null"

(* An object with no keys. *)
EmptyObject == [i \in {} |-> Null]

(* targetX / targetY: null, or a number n held as <<n>>. *)
NoTarget == <<>>

Min(a, b) == IF a < b THEN a ELSE b
Max(a, b) == IF a > b THEN a ELSE b

(* n pixels in the model's half-pixel unit. *)
Px(n) == 2 * n

worldWidth == Px(2048)
worldHeight == Px(2048)
maxParticles == 50

--------------------------------------------------------------------------
(* IEEE-754 doubles.  A double is [neg, hi, lo]: magnitude hi * Limb + lo *)
(* units, negative iff neg.  The unit is fixed per quantity (2^-58 for a  *)
(* particle's life, 2^-56 for the animation clock), so a sum or a         *)
(* difference of two values is an exact integer count of units, which the *)
(* hardware then rounds to 53 significant bits.                           *)

Limb == 536870912                     \* 2^29

Dbl(hi, lo) == [neg |-> FALSE, hi |-> hi, lo |-> lo]
DblZero == Dbl(0, 0)

MagLess(a, b) == a.hi < b.hi \/ (a.hi = b.hi /\ a.lo < b.lo)

(* Bits of the magnitude beyond 53: hi carries bits 29.., so the value has *)
(* 53 + k significant bits when 2^(23+k) <= hi < 2^(24+k).                 *)
ExcessBits(hi) ==
    IF hi < 16777216 THEN 0
    ELSE CHOOSE k \in 1..6 : hi >= 2^(23 + k) /\ hi < 2^(24 + k)

(* Round a magnitude to 53 significant bits, ties to even. *)
Round53(hi, lo) ==
    LET k    == ExcessBits(hi)
        ulp  == 2^k
        r    == lo % ulp
        q    == lo \div ulp
        up   == k > 0 /\ (2 * r > ulp \/ (2 * r = ulp /\ q % 2 = 1))
        lo2  == IF up THEN lo - r + ulp ELSE lo - r
    IN  IF lo2 = Limb THEN [hi |-> hi + 1, lo |-> 0] ELSE [hi |-> hi, lo |-> lo2]

MagAdd(a, b) ==
    LET s == a.lo + b.lo
    IN  IF s >= Limb THEN Round53(a.hi + b.hi + 1, s - Limb)
        ELSE Round53(a.hi + b.hi, s)

(* a - b for magnitudes with b <= a. *)
MagSub(a, b) ==
    IF a.lo >= b.lo THEN Round53(a.hi - b.hi, a.lo - b.lo)
    ELSE Round53(a.hi - b.hi - 1, a.lo + Limb - b.lo)

WithSign(neg, m) == [neg |-> neg /\ (m.hi # 0 \/ m.lo # 0), hi |-> m.hi, lo |-> m.lo]

(* a + b and a - b of doubles. *)
DblAdd(a, b) ==
    IF a.neg = b.neg THEN WithSign(a.neg, MagAdd(a, b))
    ELSE IF MagLess(a, b) THEN WithSign(b.neg, MagSub(b, a))
    ELSE WithSign(a.neg, MagSub(a, b))

DblSub(a, b) == DblAdd(a, [b EXCEPT !.neg = ~b.neg /\ (b.hi # 0 \/ b.lo # 0)])

(* x <= 0 *)
DblLeqZero(a) == a.neg \/ (a.hi = 0 /\ a.lo = 0)

(* The literals of the source, in their quantity's unit. *)
LifeOne == Dbl(536870912, 0)             \* life: 1.0      (unit 2^-58)
Decay == Dbl(10737418, 128849019)        \* decay: 0.02    (unit 2^-58)
animationSpeed == Dbl(13421772, 429496730) \* 0.1          (unit 2^-56)

(* About the number of frame ticks the animation clock has counted: the  *)
(* specifications stop the frame loop at a bound on it.                   *)
ClockTenths(t) == t.hi \div animationSpeed.hi

(* Math.floor of a non-negative clock value (unit 2^-56 = 2^-27 limbs). *)
ClockFloor(t) == t.hi \div 134217728

--------------------------------------------------------------------------
(* Rendering: draw() and what it calls. *)

Directions == {"up", "down", "left", "right"}

(* `this`, as draw() reads it. *)
View(ps, avs, id, vx, vy, vw, vh, wimg, clock) ==
    [players |-> ps, avatars |-> avs, myPlayerId |-> id,
     viewportX |-> vx, viewportY |-> vy, viewportWidth |-> vw,
     viewportHeight |-> vh, worldImage |-> wimg, animationTime |-> clock]

(* String.prototype.slice(-4) *)
SliceLast4(s) == IF Len(s) > 4 THEN SubSeq(s, Len(s) - 3, Len(s)) ELSE s

(* Mutant: the suffix is added only from the third namesake on. *)
getDisplayName_threeOrMore(ps, player) ==
    LET sameNamePlayers == {i \in DOMAIN ps : ps[i].username = player.username}
    IN  IF Cardinality(sameNamePlayers) > 2
        THEN player.username \o " (" \o SliceLast4(player.id) \o ")"
        ELSE player.username

getDisplayName(ps, player) ==
    LET sameNamePlayers == {i \in DOMAIN ps : ps[i].username = player.username}
    IN  IF Cardinality(sameNamePlayers) > 1
        THEN player.username \o " (" \o SliceLast4(player.id) \o ")"
        ELSE player.username

(* A particle as addMovementParticles makes it.  Position, velocity, size *)
(* and colour are random and only ever painted; age is not a field of the *)
(* source: it counts the updateParticles passes the particle has been     *)
(* through, for the properties to read.                                   *)
NewParticle == [life |-> LifeOne, decay |-> Decay, age |-> 0]

(* Mutant: the cap test is off by one. *)
addMovementParticles_offByOne(parts) ==
    IF Len(parts) <= maxParticles THEN Append(parts, NewParticle) ELSE parts

addMovementParticles(parts) ==
    IF Len(parts) < maxParticles THEN Append(parts, NewParticle) ELSE parts

(* The culling test of drawPlayer: on screen, with a 50-pixel margin. *)
Visible(g, player) ==
    LET screenX == player.x - g.viewportX
        screenY == player.y - g.viewportY
    IN  ~(screenX < -Px(50) \/ screenX > g.viewportWidth + Px(50)
          \/ screenY < -Px(50) \/ screenY > g.viewportHeight + Px(50))

(* Mutant: the clock drives the frame of every moving player. *)
FrameIndex_anyMoving(g, player) ==
    IF player.isMoving
    THEN ClockFloor(g.animationTime) % 3
    ELSE IF "animationFrame" \in DOMAIN player THEN player.animationFrame ELSE 0

(* player.animationFrame || 0, or the clock-driven frame of the local     *)
(* player while it moves.                                                 *)
FrameIndex(g, player) ==
    IF player.id = g.myPlayerId /\ player.isMoving
    THEN ClockFloor(g.animationTime) % 3
    ELSE IF "animationFrame" \in DOMAIN player THEN player.animationFrame ELSE 0

(* frames && frames[frameIndex] *)
HasFrame(avatar, direction, frameIndex) ==
    /\ direction \in DOMAIN avatar.frames
    /\ frameIndex + 1 \in 1..Len(avatar.frames[direction])

CacheKey(player, frameIndex) ==
    player.avatar \o "_" \o player.facing \o "_" \o ToString(frameIndex)

(* Mutant: a player whose avatar is not registered is drawn from the      *)
(* frames of a registered one.                                            *)
drawPlayer_fallbackAvatar(g, acc, player) ==
    IF ~Visible(g, player) THEN acc
    ELSE IF DOMAIN g.avatars = {} THEN acc
    ELSE
      LET avatar     == IF player.avatar \in DOMAIN g.avatars
                        THEN g.avatars[player.avatar]
                        ELSE g.avatars[CHOOSE n \in DOMAIN g.avatars : TRUE]
          frameIndex == FrameIndex(g, player)
          cacheKey   == CacheKey(player, frameIndex)
      IN  IF ~HasFrame(avatar, player.facing, frameIndex) THEN acc
          ELSE IF cacheKey \notin DOMAIN acc.cache
          THEN [acc EXCEPT !.cache =
                   [k \in DOMAIN acc.cache \cup {cacheKey} |->
                       IF k = cacheKey THEN "loading" ELSE acc.cache[k]]]
          ELSE IF acc.cache[cacheKey] = "complete"
          THEN [acc EXCEPT
                   !.drawn = @ \cup {[id    |-> player.id,
                                      key   |-> cacheKey,
                                      label |-> getDisplayName(g.players, player),
                                      glow  |-> player.id = g.myPlayerId]},
                   !.particles = IF player.isMoving
                                 THEN addMovementParticles(@) ELSE @]
          ELSE acc

(* One call of drawPlayer.  acc carries what the draw has changed so far: *)
(* the image cache, the particle list and the canvas.                     *)
drawPlayer(g, acc, player) ==
    IF ~Visible(g, player) THEN acc
    ELSE IF player.avatar \notin DOMAIN g.avatars THEN acc
    ELSE
      LET avatar     == g.avatars[player.avatar]
          frameIndex == FrameIndex(g, player)
          cacheKey   == CacheKey(player, frameIndex)
      IN  IF ~HasFrame(avatar, player.facing, frameIndex) THEN acc
          ELSE IF cacheKey \notin DOMAIN acc.cache
          THEN [acc EXCEPT !.cache =
                   [k \in DOMAIN acc.cache \cup {cacheKey} |->
                       IF k = cacheKey THEN "loading" ELSE acc.cache[k]]]
          ELSE IF acc.cache[cacheKey] = "complete"
          THEN [acc EXCEPT
                   !.drawn = @ \cup {[id    |-> player.id,
                                      key   |-> cacheKey,
                                      label |-> getDisplayName(g.players, player),
                                      glow  |-> player.id = g.myPlayerId]},
                   !.particles = IF player.isMoving
                                 THEN addMovementParticles(@) ELSE @]
          ELSE acc

RECURSIVE drawPlayers(_, _, _)
drawPlayers(g, acc, ids) ==
    IF ids = {} THEN acc
    ELSE LET i == CHOOSE j \in ids : TRUE
         IN  drawPlayers(g, drawPlayer(g, acc, g.players[i]), ids \ {i})

(* draw(): clears the canvas and blits the world image; drawImage throws  *)
(* on an image whose load failed, which ends the draw before any player.  *)
draw(g, cache, parts) ==
    IF g.worldImage = "broken"
    THEN [cache |-> cache, particles |-> parts, drawn |-> {}]
    ELSE drawPlayers(g, [cache |-> cache, particles |-> parts, drawn |-> {}],
                     DOMAIN g.players)

(* A handler's closing this.draw(), on the state the handler leaves. *)
Redraw(ps, avs, id, vx, vy, vw, vh) ==
    LET d == draw(View(ps, avs, id, vx, vy, vw, vh, worldImage, animationTime),
                  avatarImageCache, particles)
    IN  /\ avatarImageCache' = d.cache
        /\ particles' = d.particles
        /\ drawn' = d.drawn

--------------------------------------------------------------------------
(* The viewport. *)

(* Mutant: the far edge of the world is not clamped. *)
CenterClamp_noUpper(pos, viewDim, worldDim) ==
    Max(0, pos - viewDim \div 2)

CenterClamp(pos, viewDim, worldDim) ==
    Max(0, Min(pos - viewDim \div 2, worldDim - viewDim))

(* Mutant: the x axis is centred on the player's y. *)
updateViewport_axisSlip(id, ps, vw, vh) ==
    IF id = Null \/ id \notin DOMAIN ps
    THEN [x |-> 0, y |-> 0]
    ELSE [x |-> CenterClamp(ps[id].y, vw, worldWidth),
          y |-> CenterClamp(ps[id].y, vh, worldHeight)]

updateViewport(id, ps, vw, vh) ==
    IF id = Null \/ id \notin DOMAIN ps
    THEN [x |-> 0, y |-> 0]
    ELSE [x |-> CenterClamp(ps[id].x, vw, worldWidth),
          y |-> CenterClamp(ps[id].y, vh, worldHeight)]

resetViewport == [x |-> 0, y |-> 0]

(* The window's resize listener. *)
Resize(innerWidth, innerHeight) ==
    LET v == updateViewport(myPlayerId, players, Px(innerWidth), Px(innerHeight))
    IN  /\ viewportWidth' = Px(innerWidth)
        /\ viewportHeight' = Px(innerHeight)
        /\ viewportX' = v.x
        /\ viewportY' = v.y
        /\ Redraw(players, avatars, myPlayerId, v.x, v.y,
                  Px(innerWidth), Px(innerHeight))
        /\ sent' = <<>>
        /\ last' = [op |-> "resize"]
        /\ UNCHANGED <<worldImage, myPlayerId, players, avatars, readyState,
                       isConnected, keyState, isMoving, animationId, targetX,
                       targetY, isClickMoving, animationTime>>

(* worldImage.onload *)
WorldImageOnload ==
    /\ worldImage = "loading"
    /\ worldImage' = "loaded"
    /\ viewportX' = resetViewport.x
    /\ viewportY' = resetViewport.y
    /\ LET d == draw(View(players, avatars, myPlayerId, resetViewport.x,
                          resetViewport.y, viewportWidth, viewportHeight,
                          "loaded", animationTime), avatarImageCache, particles)
       IN  /\ avatarImageCache' = d.cache
           /\ particles' = d.particles
           /\ drawn' = d.drawn
    /\ sent' = <<>>
    /\ last' = [op |-> "world_onload"]
    /\ UNCHANGED <<myPlayerId, players, avatars, readyState, isConnected,
                   keyState, isMoving, animationId, targetX, targetY,
                   isClickMoving, animationTime, viewportWidth, viewportHeight>>

(* worldImage.onerror: logs. *)
WorldImageOnerror ==
    /\ worldImage = "loading"
    /\ worldImage' = "broken"
    /\ sent' = <<>>
    /\ last' = [op |-> "world_onerror"]
    /\ UNCHANGED <<myPlayerId, players, avatars, readyState, isConnected,
                   avatarImageCache, keyState, isMoving, animationId, targetX,
                   targetY, isClickMoving, animationTime, particles, viewportX,
                   viewportY, viewportWidth, viewportHeight, drawn>>

(* avatarImg.onload of a cached avatar frame: the image is complete, and  *)
(* the canvas is redrawn.                                                 *)
AvatarImgOnload(cacheKey) ==
    /\ cacheKey \in DOMAIN avatarImageCache
    /\ avatarImageCache[cacheKey] = "loading"
    /\ LET d == draw(View(players, avatars, myPlayerId, viewportX, viewportY,
                          viewportWidth, viewportHeight, worldImage,
                          animationTime),
                     [avatarImageCache EXCEPT ![cacheKey] = "complete"],
                     particles)
       IN  /\ avatarImageCache' = d.cache
           /\ particles' = d.particles
           /\ drawn' = d.drawn
    /\ sent' = <<>>
    /\ last' = [op |-> "avatar_onload", key |-> cacheKey]
    /\ UNCHANGED <<worldImage, myPlayerId, players, avatars, readyState,
                   isConnected, keyState, isMoving, animationId, targetX,
                   targetY, isClickMoving, animationTime, viewportX, viewportY,
                   viewportWidth, viewportHeight>>

(* A cached avatar frame whose load fails: no handler is registered; the  *)
(* image stays complete with naturalWidth 0 and is never drawn.           *)
AvatarImgError(cacheKey) ==
    /\ cacheKey \in DOMAIN avatarImageCache
    /\ avatarImageCache[cacheKey] = "loading"
    /\ avatarImageCache' = [avatarImageCache EXCEPT ![cacheKey] = "broken"]
    /\ sent' = <<>>
    /\ last' = [op |-> "avatar_onerror", key |-> cacheKey]
    /\ UNCHANGED <<worldImage, myPlayerId, players, avatars, readyState,
                   isConnected, keyState, isMoving, animationId, targetX,
                   targetY, isClickMoving, animationTime, particles, viewportX,
                   viewportY, viewportWidth, viewportHeight, drawn>>

--------------------------------------------------------------------------
(* The transport: connectToServer, joinGame, handleServerMessage. *)

CONNECTING == 0
OPEN == 1
CLOSING == 2
CLOSED == 3

joinGame == <<[action |-> "join_game", username |-> "Tim"]>>

(* websocket.onopen *)
WsOpen ==
    /\ readyState = CONNECTING
    /\ readyState' = OPEN
    /\ isConnected' = TRUE
    /\ sent' = joinGame
    /\ last' = [op |-> "open"]
    /\ UNCHANGED <<worldImage, myPlayerId, players, avatars, avatarImageCache,
                   keyState, isMoving, animationId, targetX, targetY,
                   isClickMoving, animationTime, particles, viewportX,
                   viewportY, viewportWidth, viewportHeight, drawn>>

(* The closing handshake starts (the server sent a Close frame): the      *)
(* socket leaves OPEN; no handler of the client runs until the close      *)
(* event.                                                                 *)
WsClosing ==
    /\ readyState = OPEN
    /\ readyState' = CLOSING
    /\ sent' = <<>>
    /\ last' = [op |-> "closing"]
    /\ UNCHANGED <<worldImage, myPlayerId, players, avatars, isConnected,
                   avatarImageCache, keyState, isMoving, animationId, targetX,
                   targetY, isClickMoving, animationTime, particles, viewportX,
                   viewportY, viewportWidth, viewportHeight, drawn>>

(* Mutant: the close handler does not clear the connected flag. *)
WsClose_keepsFlag ==
    /\ readyState # CLOSED
    /\ readyState' = CLOSED
    /\ sent' = <<>>
    /\ last' = [op |-> "close"]
    /\ UNCHANGED <<worldImage, myPlayerId, players, avatars, isConnected,
                   avatarImageCache, keyState, isMoving, animationId, targetX,
                   targetY, isClickMoving, animationTime, particles, viewportX,
                   viewportY, viewportWidth, viewportHeight, drawn>>

(* websocket.onclose (after a failed connection attempt, a handshake or   *)
(* an abrupt loss of the connection).                                     *)
WsClose ==
    /\ readyState # CLOSED
    /\ readyState' = CLOSED
    /\ isConnected' = FALSE
    /\ sent' = <<>>
    /\ last' = [op |-> "close"]
    /\ UNCHANGED <<worldImage, myPlayerId, players, avatars, avatarImageCache,
                   keyState, isMoving, animationId, targetX, targetY,
                   isClickMoving, animationTime, particles, viewportX,
                   viewportY, viewportWidth, viewportHeight, drawn>>

(* Mutant: the update replaces the store instead of merging into it. *)
ObjectAssign_replace(target, source) == source

(* Object.assign(target, source) on id-keyed objects. *)
ObjectAssign(target, source) ==
    [i \in DOMAIN target \cup DOMAIN source |->
        IF i \in DOMAIN source THEN source[i] ELSE target[i]]

(* delete obj[key] *)
Delete(obj, key) == [i \in DOMAIN obj \ {key} |-> obj[i]]

(* obj[key] = value *)
Put(obj, key, value) ==
    [i \in DOMAIN obj \cup {key} |-> IF i = key THEN value ELSE obj[i]]

(* Mutant: a failed join clears the session. *)
HandleJoinGame_resetsOnFailure(message) ==
    IF message.success
    THEN LET v == updateViewport(message.playerId, message.players,
                                 viewportWidth, viewportHeight)
         IN  /\ myPlayerId' = message.playerId
             /\ players' = message.players
             /\ avatars' = message.avatars
             /\ viewportX' = v.x
             /\ viewportY' = v.y
             /\ Redraw(message.players, message.avatars, message.playerId,
                       v.x, v.y, viewportWidth, viewportHeight)
    ELSE /\ myPlayerId' = Null
         /\ players' = EmptyObject
         /\ UNCHANGED <<avatars, viewportX, viewportY, avatarImageCache,
                        particles, drawn>>

(* case 'join_game' *)
HandleJoinGame(message) ==
    IF message.success
    THEN LET v == updateViewport(message.playerId, message.players,
                                 viewportWidth, viewportHeight)
         IN  /\ myPlayerId' = message.playerId
             /\ players' = message.players
             /\ avatars' = message.avatars
             /\ viewportX' = v.x
             /\ viewportY' = v.y
             /\ Redraw(message.players, message.avatars, message.playerId,
                       v.x, v.y, viewportWidth, viewportHeight)
    ELSE UNCHANGED <<myPlayerId, players, avatars, viewportX, viewportY,
                     avatarImageCache, particles, drawn>>

(* case 'player_joined'.  Reading message.player.id or message.avatar.name *)
(* of a message without that record throws a TypeError, which ends the    *)
(* handler where it stands: before the store is written in the first      *)
(* case, after it in the second.                                          *)
HandlePlayerJoined(message) ==
    IF "player" \notin DOMAIN message
    THEN UNCHANGED <<myPlayerId, players, avatars, viewportX, viewportY,
                     avatarImageCache, particles, drawn>>
    ELSE IF "avatar" \notin DOMAIN message
    THEN /\ players' = Put(players, message.player.id, message.player)
         /\ UNCHANGED <<myPlayerId, avatars, viewportX, viewportY,
                        avatarImageCache, particles, drawn>>
    ELSE
      LET ps  == Put(players, message.player.id, message.player)
          avs == Put(avatars, message.avatar.name, message.avatar)
      IN  /\ players' = ps
          /\ avatars' = avs
          /\ Redraw(ps, avs, myPlayerId, viewportX, viewportY,
                    viewportWidth, viewportHeight)
          /\ UNCHANGED <<myPlayerId, viewportX, viewportY>>

(* Mutant: the viewport follows only updates that name the local player. *)
HandlePlayersMoved_gated(message) ==
    LET ps == [i \in DOMAIN players \cup DOMAIN message.players |->
                 IF i \in DOMAIN message.players
                 THEN message.players[i] ELSE players[i]]
        v  == IF myPlayerId # Null /\ myPlayerId \in DOMAIN message.players
              THEN updateViewport(myPlayerId, ps, viewportWidth, viewportHeight)
              ELSE [x |-> viewportX, y |-> viewportY]
    IN  /\ players' = ps
        /\ viewportX' = v.x
        /\ viewportY' = v.y
        /\ Redraw(ps, avatars, myPlayerId, v.x, v.y,
                  viewportWidth, viewportHeight)
        /\ UNCHANGED <<myPlayerId, avatars>>

(* case 'players_moved' *)
HandlePlayersMoved(message) ==
    LET ps == ObjectAssign(players, message.players)
        v  == IF myPlayerId # Null /\ myPlayerId \in DOMAIN ps
              THEN updateViewport(myPlayerId, ps, viewportWidth, viewportHeight)
              ELSE [x |-> viewportX, y |-> viewportY]
    IN  /\ players' = ps
        /\ viewportX' = v.x
        /\ viewportY' = v.y
        /\ Redraw(ps, avatars, myPlayerId, v.x, v.y,
                  viewportWidth, viewportHeight)
        /\ UNCHANGED <<myPlayerId, avatars>>

(* case 'player_left' *)
HandlePlayerLeft(message) ==
    LET ps == Delete(players, message.playerId)
    IN  /\ players' = ps
        /\ Redraw(ps, avatars, myPlayerId, viewportX, viewportY,
                  viewportWidth, viewportHeight)
        /\ UNCHANGED <<myPlayerId, avatars, viewportX, viewportY>>

(* default: an unknown action is logged. *)
HandleUnknown(message) ==
    UNCHANGED <<myPlayerId, players, avatars, viewportX, viewportY,
                avatarImageCache, particles, drawn>>

handleServerMessage(message) ==
    CASE message.action = "join_game"     -> HandleJoinGame(message)
      [] message.action = "player_joined" -> HandlePlayerJoined(message)
      [] message.action = "players_moved" -> HandlePlayersMoved(message)
      [] message.action = "player_left"   -> HandlePlayerLeft(message)
      [] OTHER                            -> HandleUnknown(message)

(* websocket.onmessage: messages are delivered while the socket is open. *)
WsMessage(message) ==
    /\ readyState = OPEN
    /\ handleServerMessage(message)
    /\ sent' = <<>>
    /\ last' = [op |-> "message", message |-> message]
    /\ UNCHANGED <<worldImage, readyState, isConnected, keyState, isMoving,
                   animationId, targetX, targetY, isClickMoving, animationTime,
                   viewportWidth, viewportHeight>>

(* websocket.onmessage with a payload JSON.parse rejects: the catch block *)
(* logs the error.                                                        *)
WsMessageUnparseable ==
    /\ readyState = OPEN
    /\ sent' = <<>>
    /\ last' = [op |-> "unparseable"]
    /\ UNCHANGED <<worldImage, myPlayerId, players, avatars, readyState,
                   isConnected, avatarImageCache, keyState, isMoving,
                   animationId, targetX, targetY, isClickMoving, animationTime,
                   particles, viewportX, viewportY, viewportWidth,
                   viewportHeight, drawn>>

--------------------------------------------------------------------------
(* Input: key and click listeners, and the commands they send. *)

(* The switch of handleKeyDown. *)
KeyDownDirection(eventKey) ==
    CASE eventKey \in {"ArrowUp", "w", "W"}    -> "up"
      [] eventKey \in {"ArrowDown", "s", "S"}  -> "down"
      [] eventKey \in {"ArrowLeft", "a", "A"}  -> "left"
      [] eventKey \in {"ArrowRight", "d", "D"} -> "right"
      [] OTHER                                 -> Null

(* The switch of handleKeyUp. *)
KeyUpKey(eventKey) ==
    CASE eventKey \in {"ArrowUp", "w", "W"}    -> "up"
      [] eventKey \in {"ArrowDown", "s", "S"}  -> "down"
      [] eventKey \in {"ArrowLeft", "a", "A"}  -> "left"
      [] eventKey \in {"ArrowRight", "d", "D"} -> "right"
      [] OTHER                                 -> Null

anyKeyPressed(ks) == \E k \in DOMAIN ks : ks[k]

(* What sendMoveCommand hands to websocket.send. *)
sendMoveCommand(direction) ==
    IF ~isConnected THEN <<>>
    ELSE <<[action |-> "move", direction |-> direction]>>

(* Mutant: stop is sent on every release. *)
sendStopCommand_always(ks) ==
    IF ~isConnected THEN <<>> ELSE <<[action |-> "stop"]>>

(* What sendStopCommand hands to websocket.send, with the key state ks. *)
sendStopCommand(ks) ==
    IF ~isConnected THEN <<>>
    ELSE IF ~anyKeyPressed(ks) THEN <<[action |-> "stop"]>>
    ELSE <<>>

InputUnchanged ==
    UNCHANGED <<worldImage, myPlayerId, players, avatars, readyState,
                isConnected, avatarImageCache, isMoving, animationId,
                animationTime, particles, viewportX, viewportY, viewportWidth,
                viewportHeight, drawn>>

(* Mutant: every key-down of a movement key sends, held or not. *)
handleKeyDown_repeats(eventKey) ==
    /\ IF ~isConnected \/ myPlayerId = Null
       THEN /\ sent' = <<>>
            /\ UNCHANGED keyState
       ELSE LET direction == KeyDownDirection(eventKey)
            IN  IF direction # Null
                THEN /\ keyState' = [keyState EXCEPT ![direction] = TRUE]
                     /\ sent' = sendMoveCommand(direction)
                ELSE /\ sent' = <<>>
                     /\ UNCHANGED keyState
    /\ last' = [op |-> "keydown", key |-> eventKey]
    /\ UNCHANGED <<targetX, targetY, isClickMoving>>
    /\ InputUnchanged

(* Mutant: the client moves its own player as soon as a key goes down. *)
handleKeyDown_predicts(eventKey) ==
    /\ IF ~isConnected \/ myPlayerId = Null
       THEN /\ sent' = <<>>
            /\ UNCHANGED <<keyState, players>>
       ELSE LET direction == KeyDownDirection(eventKey)
            IN  IF direction # Null /\ ~keyState[direction]
                THEN /\ keyState' = [keyState EXCEPT ![direction] = TRUE]
                     /\ sent' = sendMoveCommand(direction)
                     /\ players' = [i \in DOMAIN players |->
                                      IF i = myPlayerId
                                      THEN [players[i] EXCEPT !.y = @ + Px(1)]
                                      ELSE players[i]]
                ELSE /\ sent' = <<>>
                     /\ UNCHANGED <<keyState, players>>
    /\ last' = [op |-> "keydown", key |-> eventKey]
    /\ UNCHANGED <<targetX, targetY, isClickMoving>>
    /\ UNCHANGED <<worldImage, myPlayerId, avatars, readyState, isConnected,
                   avatarImageCache, isMoving, animationId, animationTime,
                   particles, viewportX, viewportY, viewportWidth,
                   viewportHeight, drawn>>

handleKeyDown(eventKey) ==
    /\ IF ~isConnected \/ myPlayerId = Null
       THEN /\ sent' = <<>>
            /\ UNCHANGED keyState
       ELSE LET direction == KeyDownDirection(eventKey)
            IN  IF direction # Null /\ ~keyState[direction]
                THEN /\ keyState' = [keyState EXCEPT ![direction] = TRUE]
                     /\ sent' = sendMoveCommand(direction)
                ELSE /\ sent' = <<>>
                     /\ UNCHANGED keyState
    /\ last' = [op |-> "keydown", key |-> eventKey]
    /\ UNCHANGED <<targetX, targetY, isClickMoving>>
    /\ InputUnchanged

(* Mutant: key-up is not gated on the connection. *)
handleKeyUp_ungated(eventKey) ==
    /\ IF myPlayerId = Null
       THEN /\ sent' = <<>>
            /\ UNCHANGED keyState
       ELSE LET key == KeyUpKey(eventKey)
            IN  IF key # Null /\ keyState[key]
                THEN /\ keyState' = [keyState EXCEPT ![key] = FALSE]
                     /\ sent' = sendStopCommand([keyState EXCEPT ![key] = FALSE])
                ELSE /\ sent' = <<>>
                     /\ UNCHANGED keyState
    /\ last' = [op |-> "keyup", key |-> eventKey]
    /\ UNCHANGED <<targetX, targetY, isClickMoving>>
    /\ InputUnchanged

handleKeyUp(eventKey) ==
    /\ IF ~isConnected \/ myPlayerId = Null
       THEN /\ sent' = <<>>
            /\ UNCHANGED keyState
       ELSE LET key == KeyUpKey(eventKey)
            IN  IF key # Null /\ keyState[key]
                THEN /\ keyState' = [keyState EXCEPT ![key] = FALSE]
                     /\ sent' = sendStopCommand([keyState EXCEPT ![key] = FALSE])
                ELSE /\ sent' = <<>>
                     /\ UNCHANGED keyState
    /\ last' = [op |-> "keyup", key |-> eventKey]
    /\ UNCHANGED <<targetX, targetY, isClickMoving>>
    /\ InputUnchanged

(* moveToPosition(x, y): the new target and what is sent. *)
moveToPosition(x, y) ==
    IF ~isConnected
    THEN [targetX |-> targetX, targetY |-> targetY,
          isClickMoving |-> isClickMoving, sent |-> <<>>]
    ELSE LET cx == Max(0, Min(x, worldWidth))
             cy == Max(0, Min(y, worldHeight))
         IN  [targetX |-> <<cx>>, targetY |-> <<cy>>, isClickMoving |-> TRUE,
              sent |-> <<[action |-> "move", x |-> cx, y |-> cy]>>]

(* The canvas's click listener; (clientX, clientY) is a pixel of the      *)
(* canvas, whose bounding rectangle starts at the window's origin.        *)
Click(clientX, clientY) ==
    /\ Px(clientX) < viewportWidth
    /\ Px(clientY) < viewportHeight
    /\ IF ~isConnected \/ myPlayerId = Null
       THEN /\ sent' = <<>>
            /\ UNCHANGED <<targetX, targetY, isClickMoving>>
       ELSE LET screenX == Px(clientX)
                screenY == Px(clientY)
                m == moveToPosition(screenX + viewportX, screenY + viewportY)
            IN  /\ targetX' = m.targetX
                /\ targetY' = m.targetY
                /\ isClickMoving' = m.isClickMoving
                /\ sent' = m.sent
    /\ last' = [op |-> "click", x |-> clientX, y |-> clientY]
    /\ UNCHANGED keyState
    /\ InputUnchanged

--------------------------------------------------------------------------
(* The frame loop: startMovementLoop, updateMovement, updateParticles. *)

Aged(particle) ==
    [particle EXCEPT !.life = DblSub(@, particle.decay), !.age = @ + 1]

Expired(particle) == DblLeqZero(particle.life)

(* Mutant: the list is walked forwards, so the particle that slides into *)
(* a removed particle's slot is passed over in that tick.                 *)
RECURSIVE ForwardSplice(_, _)
ForwardSplice(parts, i) ==
    IF i > Len(parts) THEN parts
    ELSE IF Expired(Aged(parts[i]))
         THEN LET rest == SubSeq(parts, 1, i - 1) \o SubSeq(parts, i + 1, Len(parts))
              IN  ForwardSplice(rest, i + 1)
         ELSE ForwardSplice([parts EXCEPT ![i] = Aged(parts[i])], i + 1)

updateParticles_forward(parts) == ForwardSplice(parts, 1)

updateParticles(parts) ==
    SelectSeq([i \in 1..Len(parts) |-> Aged(parts[i])],
              LAMBDA particle : ~Expired(particle))

updateMovement ==
    IF ~isConnected \/ myPlayerId = Null
    THEN UNCHANGED <<animationTime, isMoving, isClickMoving, particles>>
    ELSE /\ animationTime' = DblAdd(animationTime, animationSpeed)
         /\ IF anyKeyPressed(keyState) /\ ~isMoving
            THEN isMoving' = TRUE /\ isClickMoving' = FALSE
            ELSE IF ~anyKeyPressed(keyState) /\ isMoving
            THEN isMoving' = FALSE /\ UNCHANGED isClickMoving
            ELSE UNCHANGED <<isMoving, isClickMoving>>
         /\ particles' = updateParticles(particles)

(* One run of the animate callback: updateMovement, then the next frame   *)
(* is requested.                                                          *)
Animate ==
    /\ animationId
    /\ updateMovement
    /\ sent' = <<>>
    /\ last' = [op |-> "frame"]
    /\ UNCHANGED <<worldImage, myPlayerId, players, avatars, readyState,
                   isConnected, avatarImageCache, keyState, animationId,
                   targetX, targetY, viewportX, viewportY, viewportWidth,
                   viewportHeight, drawn>>

(* beforeunload: stopMovementLoop. *)
BeforeUnload ==
    /\ animationId
    /\ animationId' = FALSE
    /\ sent' = <<>>
    /\ last' = [op |-> "beforeunload"]
    /\ UNCHANGED <<worldImage, myPlayerId, players, avatars, readyState,
                   isConnected, avatarImageCache, keyState, isMoving, targetX,
                   targetY, isClickMoving, animationTime, particles, viewportX,
                   viewportY, viewportWidth, viewportHeight, drawn>>

--------------------------------------------------------------------------
(* The state the constructor leaves, in a window of the given size: the   *)
(* canvas fills the window, the world image and the socket are pending,   *)
(* and the first frame has run (a no-op before the join) and requested    *)
(* the next.                                                              *)
InitIn(innerWidth, innerHeight) ==
    /\ worldImage = "loading"
    /\ myPlayerId = Null
    /\ players = EmptyObject
    /\ avatars = EmptyObject
    /\ readyState = CONNECTING
    /\ isConnected = FALSE
    /\ avatarImageCache = EmptyObject
    /\ keyState = [k \in Directions |-> FALSE]
    /\ isMoving = FALSE
    /\ animationId = TRUE
    /\ targetX = NoTarget
    /\ targetY = NoTarget
    /\ isClickMoving = FALSE
    /\ animationTime = DblZero
    /\ particles = <<>>
    /\ viewportX = 0
    /\ viewportY = 0
    /\ viewportWidth = Px(innerWidth)
    /\ viewportHeight = Px(innerHeight)
    /\ sent = <<>>
    /\ drawn = {}
    /\ last = [op |-> "init"]

--------------------------------------------------------------------------
(* Inputs: the records and messages the specifications draw from. *)

Player(id, username, x, y, facing, avatar, moving) ==
    [id |-> id, username |-> username, x |-> x, y |-> y, facing |-> facing,
     avatar |-> avatar, isMoving |-> moving]

(* An avatar definition with n frames for each of the directions dirs. *)
Avatar(name, dirs, n) ==
    [name |-> name,
     frames |-> [d \in dirs |->
                    [i \in 1..n |-> name \o "/" \o d \o ToString(i - 1) \o ".png"]]]

JoinOk(id, ps, avs) ==
    [action |-> "join_game", success |-> TRUE, playerId |-> id,
     players |-> ps, avatars |-> avs]
JoinFail == [action |-> "join_game", success |-> FALSE, error |-> "full"]
PlayerJoined(player, avatar) ==
    [action |-> "player_joined", player |-> player, avatar |-> avatar]
PlayersMoved(ps) == [action |-> "players_moved", players |-> ps]
PlayerLeft(id) == [action |-> "player_left", playerId |-> id]
Ping == [action |-> "ping"]

(* The id -> player mappings a server can send over the records recs:     *)
(* every entry is filed under its own id.                                 *)
Mappings(recs) ==
    LET ids == {r.id : r \in recs}
    IN  UNION {{f \in [S -> recs] : \A i \in S : f[i].id = i} : S \in SUBSET ids}

(* Positions lie on a grid of half-pixel coordinates that reaches past    *)
(* the world's far edge.                                                  *)
GridStep == 1365
MaxGrid == 3
Coord(k) == k * GridStep

(* Window sizes in pixels: an ordinary window (odd width), one exactly    *)
(* the size of the world, one wider than the world.                       *)
WindowSizes == {<<801, 600>>, <<2048, 2048>>, <<2500, 700>>}

--------------------------------------------------------------------------
(* Spec: the session as the network, the window and the image loader      *)
(* drive it.  Player p1 roams the grid; p2 stands still.                  *)

DefaultAvatar == Avatar("a1", Directions, 3)

RoamingPlayers ==
    {Player("p1", "Tim", Coord(i), Coord(MaxGrid - i), "down", "a1", FALSE) :
        i \in 0..MaxGrid}
    \cup {Player("p2", "Ann", Coord(1), Coord(1), "down", "a1", FALSE)}

SessionMessages ==
    {JoinOk(id, ps, [n \in {"a1"} |-> DefaultAvatar]) :
        id \in {"p1", "p2"}, ps \in Mappings(RoamingPlayers)}
    \cup {JoinFail, Ping}
    \cup {PlayerJoined(r, DefaultAvatar) : r \in RoamingPlayers}
    \cup {PlayersMoved(ps) : ps \in Mappings(RoamingPlayers)}
    \cup {PlayerLeft(id) : id \in {"p1", "p2"}}

Init == \E size \in WindowSizes : InitIn(size[1], size[2])

Next ==
    \/ WsOpen
    \/ WsClosing
    \/ WsClose
    \/ \E message \in SessionMessages :
          /\ message.action = "join_game" /\ message.success
                => message.playerId \in DOMAIN message.players
          /\ WsMessage(message)
    \/ \E size \in WindowSizes : Resize(size[1], size[2])
    \/ WorldImageOnload
    \/ WorldImageOnerror

Spec == Init /\ [][Next]_vars

--------------------------------------------------------------------------
(* SpecAll: the server's four messages, window resizes, the world        *)
(* image's load, key, click and frame events, interleaved, over a small   *)
(* pool of each: one player at either end of the grid, one key, one click *)
(* point, a frame clock stopped after MaxClockTenths ticks.               *)

MaxClockTenths == 1

CornerPlayers ==
    {Player("p1", "Tim", Coord(i), Coord(MaxGrid - i), "down", "a1", FALSE) :
        i \in {0, MaxGrid}}

AllMessages ==
    {JoinOk("p1", ps, EmptyObject) : ps \in Mappings(CornerPlayers) \ {EmptyObject}}
    \cup {PlayerLeft("p1")}
    \cup {PlayerJoined(r, DefaultAvatar) : r \in CornerPlayers}
    \cup {PlayersMoved(ps) : ps \in Mappings(CornerPlayers)}

AllSizes == {<<801, 600>>, <<2500, 700>>}

InitAll == \E size \in AllSizes : InitIn(size[1], size[2])

NextAll ==
    \/ WsOpen
    \/ WsClose
    \/ \E message \in AllMessages : WsMessage(message)
    \/ \E size \in AllSizes : Resize(size[1], size[2])
    \/ WorldImageOnload
    \/ handleKeyDown("ArrowUp")
    \/ handleKeyUp("ArrowUp")
    \/ Click(10, 10)
    \/ ClockTenths(animationTime) < MaxClockTenths /\ Animate

SpecAll == InitAll /\ [][NextAll]_vars

--------------------------------------------------------------------------
(* SpecJoin: the join handshake.  The server answers join_game with a     *)
(* success or a failure, at any time and any number of times, among its   *)
(* other messages and the user's key, click and frame events.             *)

JoinMessages == AllMessages \cup {JoinFail}

InitJoin == InitIn(801, 600)

NextJoin ==
    \/ WsOpen
    \/ WsClose
    \/ \E message \in JoinMessages : WsMessage(message)
    \/ WorldImageOnload
    \/ handleKeyDown("ArrowUp")
    \/ handleKeyUp("ArrowUp")
    \/ Click(10, 10)
    \/ ClockTenths(animationTime) < MaxClockTenths /\ Animate

SpecJoin == InitJoin /\ [][NextJoin]_vars

--------------------------------------------------------------------------
(* SpecInput: the input state machine.  The socket opens and closes, the  *)
(* join succeeds or fails, and keys of two directions (one of them bound  *)
(* to two keys), an unbound key and two click points arrive in any order, *)
(* between frames.                                                        *)

InputKeys == {"ArrowUp", "w", "a", "Escape"}

InputClicks == {<<10, 20>>, <<800, 599>>}

InputMessages ==
    {JoinOk("p1", ps, EmptyObject) : ps \in Mappings(CornerPlayers) \ {EmptyObject}}
    \cup {JoinFail}

InitInput == InitIn(801, 600)

NextInput ==
    \/ WsOpen
    \/ WsClosing
    \/ WsClose
    \/ \E message \in InputMessages : WsMessage(message)
    \/ \E eventKey \in InputKeys : handleKeyDown(eventKey)
    \/ \E eventKey \in InputKeys : handleKeyUp(eventKey)
    \/ \E point \in InputClicks : Click(point[1], point[2])
    \/ ClockTenths(animationTime) < MaxClockTenths /\ Animate

SpecInput == InitInput /\ [][NextInput]_vars

--------------------------------------------------------------------------
(* SpecDraw: what reaches the canvas.  The local player p1 uses avatar    *)
(* a1; p2 joins with the avatar name "ghost", announced together with     *)
(* either a1's definition (so "ghost" stays unknown) or ghost's own.      *)
(* Avatar frames finish loading, or fail, in any order.  No frame ticks:  *)
(* particles only accumulate, and the run stops at MaxDrawParticles.      *)

MaxDrawParticles == 2

GhostAvatar == Avatar("ghost", {"down"}, 1)

LocalPlayers ==
    {Player("p1", "Tim", Coord(0), Coord(0), "down", "a1", mv) : mv \in BOOLEAN}

GhostPlayers ==
    {Player("p2", "Ann", Coord(0), Coord(0), "down", "ghost", mv) : mv \in BOOLEAN}

DrawMessages ==
    {JoinOk("p1", ps, [n \in {"a1"} |-> DefaultAvatar]) :
        ps \in Mappings(LocalPlayers) \ {EmptyObject}}
    \cup {PlayerJoined(r, av) : r \in GhostPlayers, av \in {DefaultAvatar, GhostAvatar}}
    \cup {PlayersMoved(ps) : ps \in Mappings(GhostPlayers)}
    \cup {PlayerLeft("p2")}

InitDraw == InitIn(801, 600)

DrawBound == Len(particles) < MaxDrawParticles

NextDraw ==
    \/ DrawBound /\ WsOpen
    \/ DrawBound /\ WsClose
    \/ DrawBound /\ \E message \in DrawMessages : WsMessage(message)
    \/ DrawBound /\ WorldImageOnload
    \/ DrawBound /\ WorldImageOnerror
    \/ DrawBound /\ \E cacheKey \in DOMAIN avatarImageCache : AvatarImgOnload(cacheKey)
    \/ DrawBound /\ \E cacheKey \in DOMAIN avatarImageCache : AvatarImgError(cacheKey)

SpecDraw == InitDraw /\ [][NextDraw]_vars

--------------------------------------------------------------------------
(* SpecCap: filling the particle pool.  Two moving players are on screen, *)
(* every message ends in a draw that asks for one particle per moving     *)
(* player drawn, and the frame loop ticks between draws until the clock   *)
(* has counted MaxCapTicks.                                               *)

MaxCapTicks == 1

MovingLocal == Player("p1", "Tim", Coord(0), Coord(0), "down", "a1", TRUE)
StandingLocal == Player("p1", "Tim", Coord(0), Coord(0), "down", "a1", FALSE)
MovingPeer == Player("p2", "Ann", Coord(0), Coord(0), "down", "a1", TRUE)

CapMessages ==
    {JoinOk("p1", [i \in {"p1"} |-> MovingLocal], [n \in {"a1"} |-> DefaultAvatar]),
     PlayerJoined(MovingPeer, DefaultAvatar),
     PlayerLeft("p2"),
     PlayersMoved(EmptyObject)}

InitCap == InitIn(801, 600)

NextCap ==
    \/ WsOpen
    \/ \E message \in CapMessages : WsMessage(message)
    \/ \E cacheKey \in DOMAIN avatarImageCache : AvatarImgOnload(cacheKey)
    \/ ClockTenths(animationTime) < MaxCapTicks /\ Animate

SpecCap == InitCap /\ [][NextCap]_vars

--------------------------------------------------------------------------
(* SpecExpiry: the life of a particle.  A moving peer is on screen beside *)
(* the standing local player; draws spawn particles while fewer than      *)
(* MaxExpiryLive are live, and the frame loop ticks until the clock has   *)
(* counted MaxExpiryTenths.                                               *)

MaxExpiryLive == 2
MaxExpiryTenths == 52

ExpiryMessages ==
    {JoinOk("p1", [i \in {"p1", "p2"} |-> IF i = "p1" THEN StandingLocal ELSE MovingPeer],
            [n \in {"a1"} |-> DefaultAvatar]),
     PlayersMoved(EmptyObject)}

InitExpiry == InitIn(801, 600)

NextExpiry ==
    \/ WsOpen
    \/ /\ Len(particles) < MaxExpiryLive
       /\ \E message \in ExpiryMessages : WsMessage(message)
    \/ \E cacheKey \in DOMAIN avatarImageCache : AvatarImgOnload(cacheKey)
    \/ ClockTenths(animationTime) < MaxExpiryTenths /\ Animate

SpecExpiry == InitExpiry /\ [][NextExpiry]_vars

--------------------------------------------------------------------------
(* SpecNames: name labels.  Three players stand in view of the local one; *)
(* two of the ids end in the same four characters, and the second player  *)
(* joins either as another "Tim" or as "Ann".                             *)

Named(id, username) ==
    Player(id, username, Coord(0), Coord(0), "down", "a1", FALSE)

NamesMessages ==
    {JoinOk("u1-abcd", [i \in {"u1-abcd"} |-> Named("u1-abcd", "Tim")],
            [n \in {"a1"} |-> DefaultAvatar]),
     PlayerJoined(Named("u2-abcd", "Tim"), DefaultAvatar),
     PlayerJoined(Named("u2-abcd", "Ann"), DefaultAvatar),
     PlayerJoined(Named("u3-wxyz", "Tim"), DefaultAvatar),
     PlayerLeft("u2-abcd"),
     PlayerLeft("u3-wxyz")}

InitNames == \E size \in AllSizes : InitIn(size[1], size[2])

NextNames ==
    \/ WsOpen
    \/ WsClose
    \/ \E message \in NamesMessages : WsMessage(message)
    \/ \E size \in AllSizes : Resize(size[1], size[2])
    \/ WorldImageOnload
    \/ WorldImageOnerror
    \/ \E cacheKey \in DOMAIN avatarImageCache : AvatarImgOnload(cacheKey)

SpecNames == InitNames /\ [][NextNames]_vars

--------------------------------------------------------------------------
(* SpecStore: what the server's messages do to the player store and the   *)
(* avatar mapping.  Beside well-formed messages the server sends text     *)
(* that is not JSON, player_joined messages that lack the player or the   *)
(* avatar record, and a second, different definition of avatar "a1".      *)

StandingPeer == Player("p2", "Ann", Coord(0), Coord(0), "down", "a1", FALSE)

AltAvatar == Avatar("a1", {"down"}, 1)

PlayerJoinedNoAvatar(player) == [action |-> "player_joined", player |-> player]
PlayerJoinedNoPlayer(avatar) == [action |-> "player_joined", avatar |-> avatar]

StoreMessages ==
    {JoinOk("p1", [i \in {"p1"} |-> StandingLocal], [n \in {"a1"} |-> DefaultAvatar]),
     PlayerJoined(StandingPeer, DefaultAvatar),
     PlayerJoined(StandingPeer, AltAvatar),
     PlayerJoinedNoAvatar(StandingPeer),
     PlayerJoinedNoPlayer(DefaultAvatar),
     PlayerLeft("p2")}

InitStore == \E size \in AllSizes : InitIn(size[1], size[2])

NextStore ==
    \/ WsOpen
    \/ WsClose
    \/ \E message \in StoreMessages : WsMessage(message)
    \/ WsMessageUnparseable
    \/ \E size \in AllSizes : Resize(size[1], size[2])
    \/ WorldImageOnload
    \/ \E cacheKey \in DOMAIN avatarImageCache : AvatarImgOnload(cacheKey)

SpecStore == InitStore /\ [][NextStore]_vars

--------------------------------------------------------------------------
(* SpecFrames: which animation frame is drawn.  The local player walks    *)
(* (its frame follows the clock) or stands with a frame index the server  *)
(* sent; the peer p2 stands with no index or with one past the end of its *)
(* frame sequence, walks with a server-sent index, or faces a direction   *)
(* its avatar has no frames for.  Draws happen while fewer than               *)
(* MaxFrameParticles particles are live, and the frame loop ticks until   *)
(* the clock has counted MaxFrameTenths.                                  *)

MaxFrameParticles == 1
MaxFrameTenths == 31

SoloAvatar == Avatar("solo", {"down"}, 1)

WithFrame(player, animationFrame) ==
    [id |-> player.id, username |-> player.username, x |-> player.x,
     y |-> player.y, facing |-> player.facing, avatar |-> player.avatar,
     isMoving |-> player.isMoving, animationFrame |-> animationFrame]

FramePeers ==
    {StandingPeer,
     WithFrame(StandingPeer, 5),
     WithFrame(MovingPeer, 1),
     Player("p2", "Ann", Coord(0), Coord(0), "up", "solo", FALSE)}

FrameMessages ==
    {JoinOk("p1", [i \in {"p1"} |-> MovingLocal],
            [n \in {"a1", "solo"} |-> IF n = "a1" THEN DefaultAvatar ELSE SoloAvatar]),
     PlayersMoved([i \in {"p1"} |-> WithFrame(StandingLocal, 2)]),
     PlayersMoved([i \in {"p1"} |-> MovingLocal])}
    \cup {PlayersMoved([i \in {"p2"} |-> r]) : r \in FramePeers}

InitFrames == InitIn(801, 600)

NextFrames ==
    \/ WsOpen
    \/ /\ Len(particles) < MaxFrameParticles
       /\ \E message \in FrameMessages : WsMessage(message)
    \/ /\ Len(particles) < MaxFrameParticles
       /\ \E cacheKey \in DOMAIN avatarImageCache : AvatarImgOnload(cacheKey)
    \/ ClockTenths(animationTime) < MaxFrameTenths /\ Animate

SpecFrames == InitFrames /\ [][NextFrames]_vars

--------------------------------------------------------------------------
(* SpecLive: the frame loop under fairness.  requestAnimationFrame keeps  *)
(* calling animate for as long as the page is shown, so the frame tick is *)
(* weakly fair; it is modelled until the clock has counted MaxLiveTenths. *)
(* A moving peer is announced before or after the join, draws spawn       *)
(* particles while fewer than MaxLiveParticles are live, and the socket   *)
(* may close at any time.                                                 *)

MaxLiveParticles == 1
MaxLiveTenths == 52

LiveMessages ==
    {JoinOk("p1", [i \in {"p1"} |-> StandingLocal], [n \in {"a1"} |-> DefaultAvatar]),
     PlayerJoined(MovingPeer, DefaultAvatar),
     PlayersMoved(EmptyObject)}

InitLive == InitIn(801, 600)

LiveTick == ClockTenths(animationTime) < MaxLiveTenths /\ Animate

NextLive ==
    \/ WsOpen
    \/ WsClose
    \/ /\ Len(particles) < MaxLiveParticles
       /\ \E message \in LiveMessages : WsMessage(message)
    \/ /\ Len(particles) < MaxLiveParticles
       /\ \E cacheKey \in DOMAIN avatarImageCache : AvatarImgOnload(cacheKey)
    \/ LiveTick

SpecLive == InitLive /\ [][NextLive]_vars /\ WF_vars(LiveTick)

--------------------------------------------------------------------------
(* Predicates the properties share. *)

HasLocalPlayer == myPlayerId # Null /\ myPlayerId \in DOMAIN players

IsMessage(action) == last.op = "message" /\ last.message.action = action

(* The last event ran updateViewport. *)
Recomputed ==
    \/ last.op = "resize"
    \/ IsMessage("join_game") /\ last.message.success
    \/ IsMessage("players_moved") /\ HasLocalPlayer

(* Centre on pos, then clamp into [0, world - view], 0 when that range is *)
(* empty: the viewport coordinate the specification asks for.             *)
Framed(pos, view, world) ==
    LET centred == pos - view \div 2
    IN  IF world - view < 0 \/ centred < 0 THEN 0
        ELSE IF centred > world - view THEN world - view
        ELSE centred

--------------------------------------------------------------------------
(* C2: for a local player inside the world and a viewport no larger than  *)
(* the world, the viewport updateViewport produces contains the player:   *)
(* viewportX <= x <= viewportX + viewportWidth, and likewise for y.       *)
C2_ViewportContainsPlayer ==
    ( /\ Recomputed
      /\ HasLocalPlayer
      /\ viewportWidth <= worldWidth
      /\ viewportHeight <= worldHeight
      /\ players[myPlayerId].x \in 0..worldWidth
      /\ players[myPlayerId].y \in 0..worldHeight )
    => /\ viewportX <= players[myPlayerId].x
       /\ players[myPlayerId].x <= viewportX + viewportWidth
       /\ viewportY <= players[myPlayerId].y
       /\ players[myPlayerId].y <= viewportY + viewportHeight

(* A recomputed viewport pushed against the world's far edge by a player  *)
(* near that edge.                                                        *)
C2_Witness ==
    /\ Recomputed
    /\ HasLocalPlayer
    /\ viewportWidth < worldWidth
    /\ viewportHeight < worldHeight
    /\ players[myPlayerId].x \in 0..worldWidth
    /\ players[myPlayerId].y \in 0..worldHeight
    /\ viewportX = worldWidth - viewportWidth
    /\ players[myPlayerId].x > viewportX + viewportWidth \div 2

(* C3: a players_moved message with mapping M overwrites exactly the      *)
(* entries whose ids are keys of M, leaves every other entry and the      *)
(* avatar mapping as they were, and with an empty M changes neither the   *)
(* store nor the avatars.                                                 *)
C3_PlayersMovedFrame ==
    [][ (last'.op = "message" /\ last'.message.action = "players_moved")
        => LET M == last'.message.players
           IN  /\ \A id \in DOMAIN M :
                     id \in DOMAIN players' /\ players'[id] = M[id]
               /\ \A id \in (DOMAIN players \cup DOMAIN players') \ DOMAIN M :
                     /\ id \in DOMAIN players
                     /\ id \in DOMAIN players'
                     /\ players'[id] = players[id]
               /\ avatars' = avatars
               /\ (DOMAIN M = {} => players' = players) ]_vars

(* A partial update was applied to a store that holds another player. *)
C3_Witness ==
    /\ IsMessage("players_moved")
    /\ DOMAIN last.message.players = {"p1"}
    /\ DOMAIN players = {"p1", "p2"}
    /\ DOMAIN avatars # {}

(* C8: once joined as p, after every players_moved message handled with p *)
(* in the store each updated entry equals the received one and the        *)
(* viewport is the centre-and-clamp of p's stored position, whether or    *)
(* not p was among the updated entries.                                   *)
C8_MovedRecentres ==
    (IsMessage("players_moved") /\ HasLocalPlayer)
    => /\ \A id \in DOMAIN last.message.players :
             id \in DOMAIN players /\ players[id] = last.message.players[id]
       /\ viewportX = Framed(players[myPlayerId].x, viewportWidth, worldWidth)
       /\ viewportY = Framed(players[myPlayerId].y, viewportHeight, worldHeight)

(* An update that does not name the local player was handled, and the     *)
(* viewport is off the origin, centred on the local player.               *)
C8_Witness ==
    /\ IsMessage("players_moved")
    /\ HasLocalPlayer
    /\ DOMAIN last.message.players # {}
    /\ myPlayerId \notin DOMAIN last.message.players
    /\ viewportX > 0
    /\ viewportX < worldWidth - viewportWidth

--------------------------------------------------------------------------
(* C1: in every reachable state, whatever events were interleaved: when   *)
(* the world is at least as large as the viewport,                        *)
(* 0 <= viewportX <= worldWidth - viewportWidth and                       *)
(* 0 <= viewportY <= worldHeight - viewportHeight; on an axis where the   *)
(* world is smaller than the viewport, the coordinate is 0.               *)
C1_ViewportInWorld ==
    /\ (viewportWidth <= worldWidth /\ viewportHeight <= worldHeight)
       => /\ 0 <= viewportX /\ viewportX <= worldWidth - viewportWidth
          /\ 0 <= viewportY /\ viewportY <= worldHeight - viewportHeight
    /\ viewportWidth > worldWidth => viewportX = 0
    /\ viewportHeight > worldHeight => viewportY = 0

(* A click handled while the viewport sits against the world's far edge,  *)
(* the world image loaded.                                                *)
C1_Witness ==
    /\ last.op = "click"
    /\ isClickMoving
    /\ viewportWidth < worldWidth
    /\ viewportX = worldWidth - viewportWidth
    /\ worldImage = "loaded"

--------------------------------------------------------------------------
(* The direction each key of InputKeys is bound to, as the specification  *)
(* of the input controller has it (Null: not a movement key).             *)
BoundDirection(eventKey) ==
    IF eventKey \in {"ArrowUp", "w"} THEN "up"
    ELSE IF eventKey = "a" THEN "left"
    ELSE Null

Gated == ~isConnected \/ myPlayerId = Null

StopIntent == [action |-> "stop"]

(* C7: while connected and joined, a key-up for a held direction releases *)
(* it and sends a stop exactly when no direction is held afterwards (one  *)
(* stop, and none while another direction is still held); a key-up for a  *)
(* direction that is not held sends nothing and changes no key.           *)
C7_StopGating ==
    [][ (last'.op = "keyup" /\ ~Gated)
        => LET d == BoundDirection(last'.key)
           IN  IF d # Null /\ keyState[d]
               THEN /\ keyState' = [keyState EXCEPT ![d] = FALSE]
                    /\ sent' = IF \E e \in Directions : keyState'[e]
                               THEN <<>> ELSE <<StopIntent>>
               ELSE /\ keyState' = keyState
                    /\ sent' = <<>> ]_vars

(* The last held direction was released and one stop was sent. *)
C7_Witness ==
    /\ last.op = "keyup"
    /\ ~Gated
    /\ sent = <<StopIntent>>
    /\ \A e \in Directions : ~keyState[e]

(* C10: a key-down, key-up or click that arrives while the client is not  *)
(* connected or has no local identity sends nothing and leaves the held   *)
(* keys, the click target and the click-moving flag as they were.         *)
C10_InputGated ==
    [][ (last'.op \in {"keydown", "keyup", "click"} /\ Gated)
        => /\ sent' = <<>>
           /\ keyState' = keyState
           /\ targetX' = targetX
           /\ targetY' = targetY
           /\ isClickMoving' = isClickMoving ]_vars

(* A key-up was ignored after the connection closed, with its direction   *)
(* still marked held and a click target still active.                     *)
C10_Witness ==
    /\ last.op = "keyup"
    /\ BoundDirection(last.key) = "up"
    /\ ~isConnected
    /\ myPlayerId # Null
    /\ keyState["up"]
    /\ isClickMoving

--------------------------------------------------------------------------
DrawnIds == {d.id : d \in drawn}

(* C9: a player_joined message whose player names an avatar that is not   *)
(* in the avatar mapping is handled like any other (the player is         *)
(* stored), and as long as no avatar of that name is registered no draw   *)
(* puts that player's sprite or label on the canvas or spawns a particle  *)
(* for it.                                                                *)
C9_UnknownAvatarNotDrawn ==
    /\ [](\A id \in DrawnIds :
             id \in DOMAIN players /\ players[id].avatar \in DOMAIN avatars)
    /\ [][ /\ (last'.op = "message" /\ last'.message.action = "player_joined")
              => /\ last'.message.player.id \in DOMAIN players'
                 /\ players'[last'.message.player.id] = last'.message.player
           /\ Len(particles') > Len(particles)
              => \E id \in DrawnIds' :
                    players'[id].isMoving /\ players'[id].avatar \in DOMAIN avatars'
         ]_vars

(* p2 joined under an avatar name nobody registered, is stored and moving, *)
(* and the draw that followed put only the local player on the canvas.    *)
C9_Witness ==
    /\ IsMessage("player_joined")
    /\ last.message.player.avatar \notin DOMAIN avatars
    /\ "p2" \in DOMAIN players
    /\ players["p2"].isMoving
    /\ DrawnIds = {"p1"}

--------------------------------------------------------------------------
(* C5: at most 50 particles are live in every reachable state, and a      *)
(* draw that asks for particles while 50 are live adds none and leaves    *)
(* every live particle as it was.                                         *)
C5_ParticleCap ==
    /\ [](Len(particles) <= 50)
    /\ [][ (Len(particles) = 50 /\ last'.op # "frame")
           => particles' = particles ]_vars

(* The pool is full of particles that have all been through a tick, and   *)
(* the last event drew a moving player: its spawn request was dropped.    *)
C5_Witness ==
    /\ Len(particles) = 50
    /\ \A i \in 1..Len(particles) : particles[i].age >= 1
    /\ last.op = "message"
    /\ \E id \in DrawnIds : players[id].isMoving

(* C6: a particle (life 1.0, decay 0.02) survives each of its first 49    *)
(* ticks and is removed by its 50th, and every particle in the live list  *)
(* has life > 0, so none is painted with zero or negative alpha.          *)
C6_ParticleExpiry ==
    /\ [](\A i \in 1..Len(particles) :
             ~DblLeqZero(particles[i].life) /\ particles[i].age <= 49)
    /\ [][ (last'.op = "frame" /\ ~Gated)
           => Len(particles') =
                 Cardinality({i \in 1..Len(particles) : particles[i].age < 49})
         ]_vars

(* A particle that has been through 49 ticks is live beside a younger one. *)
C6_Witness ==
    /\ Len(particles) = 2
    /\ particles[1].age = 49
    /\ particles[2].age < 49
    /\ last.op = "frame"

--------------------------------------------------------------------------
LastFour(id) == SubSeq(id, Len(id) - 3, Len(id))

Namesake(id) ==
    \E j \in DOMAIN players : j # id /\ players[j].username = players[id].username

Suffixed(id) == players[id].username \o " (" \o LastFour(id) \o ")"

(* C4, as stated: any two distinct stored players that share a display    *)
(* name are labelled with distinct strings, each the name followed by the *)
(* last four characters of the id in parentheses.                         *)
C4_Original ==
    \A d \in drawn : \A e \in drawn :
        (d.id # e.id /\ players[d.id].username = players[e.id].username)
        => /\ d.label = Suffixed(d.id)
           /\ e.label = Suffixed(e.id)
           /\ d.label # e.label

(* C4, amended: a player with a namesake in the store is labelled with    *)
(* the name followed by the last four characters of its id in             *)
(* parentheses, so two namesakes get distinct labels exactly when their   *)
(* ids differ in the last four characters; a player without a namesake is *)
(* labelled with the plain name.                                          *)
C4_DisplayName ==
    /\ \A d \in drawn :
          d.label = IF Namesake(d.id) THEN Suffixed(d.id)
                                      ELSE players[d.id].username
    /\ \A d \in drawn : \A e \in drawn :
          (d.id # e.id /\ players[d.id].username = players[e.id].username)
          => (d.label # e.label <=> LastFour(d.id) # LastFour(e.id))

(* Two Tims with different id endings and a lone Ann are on the canvas.   *)
C4_Witness ==
    {d.label : d \in drawn} = {"Tim (abcd)", "Tim (wxyz)", "Ann"}

--------------------------------------------------------------------------
SentActions == {sent[i].action : i \in 1..Len(sent)}

C12_MoveModesExclusive == ~(isMoving /\ isClickMoving)

--------------------------------------------------------------------------
JoinSucceeded(event) ==
    event.op = "message" /\ event.message.action = "join_game"
    /\ event.message.success

JoinFailed(event) ==
    event.op = "message" /\ event.message.action = "join_game"
    /\ ~event.message.success

(* C13: a join_game message with success false leaves the local identity, *)
(* the player store, the avatar mapping and the viewport as they were and *)
(* sends nothing; the identity changes only when a successful join is     *)
(* handled, and while it is absent no move or stop intent is sent.        *)
C13_JoinFailureInert ==
    /\ [][ JoinFailed(last')
           => /\ UNCHANGED <<myPlayerId, players, avatars, viewportX, viewportY>>
              /\ sent' = <<>> ]_vars
    /\ [][ myPlayerId' # myPlayerId => JoinSucceeded(last') ]_vars
    /\ [](myPlayerId = Null => SentActions \subseteq {"join_game"})

(* A failure arrived after a successful join: identity, store and avatars *)
(* are in place and the viewport is off the origin.                       *)
C13_Witness ==
    /\ JoinFailed(last)
    /\ HasLocalPlayer
    /\ DOMAIN avatars # {}
    /\ viewportX > 0

--------------------------------------------------------------------------
Malformed(event) ==
    \/ event.op = "unparseable"
    \/ /\ event.op = "message"
       /\ event.message.action = "player_joined"
       /\ ~({"player", "avatar"} \subseteq DOMAIN event.message)

(* C14: a message that is not parseable, or a player_joined message that  *)
(* lacks its player or its avatar record, is discarded as a whole: the    *)
(* player store, the avatar mapping, the local identity, the viewport and *)
(* the connected flag are after it what they were before.                 *)
C14_MalformedDiscarded ==
    [][ Malformed(last')
        => UNCHANGED <<players, avatars, myPlayerId, viewportX, viewportY,
                       isConnected>> ]_vars

--------------------------------------------------------------------------
(* The ids an event may bring into the store: those of a successful       *)
(* join's snapshot, or the one a player_joined message announces.         *)
Delivered(event) ==
    IF JoinSucceeded(event) THEN DOMAIN event.message.players
    ELSE IF event.op = "message" /\ event.message.action = "player_joined"
    THEN {event.message.player.id}
    ELSE {}

(* C15: an id enters the store only with a successful join's snapshot or  *)
(* a player_joined message; players_moved only overwrites entries of ids  *)
(* already present; player_left removes exactly the id it names and       *)
(* leaves every other entry as it was.                                    *)
C15_StoreLifecycle ==
    [][ /\ DOMAIN players' \ DOMAIN players \subseteq Delivered(last')
        /\ (last'.op = "message" /\ last'.message.action = "players_moved")
           => DOMAIN players' = DOMAIN players
        /\ (last'.op = "message" /\ last'.message.action = "player_left")
           => /\ DOMAIN players' = DOMAIN players \ {last'.message.playerId}
              /\ \A id \in DOMAIN players' : players'[id] = players[id]
      ]_vars

--------------------------------------------------------------------------
(* C16: a player_joined message whose avatar's name is already in the     *)
(* avatar mapping leaves that name's definition as it is, and one whose   *)
(* avatar's name is new registers it; no other definition changes.        *)
C16_AvatarImmutable ==
    [][ ( /\ last'.op = "message"
          /\ last'.message.action = "player_joined"
          /\ {"player", "avatar"} \subseteq DOMAIN last'.message )
        => LET avatar == last'.message.avatar
           IN  /\ DOMAIN avatars' = DOMAIN avatars \cup {avatar.name}
               /\ \A n \in DOMAIN avatars : avatars'[n] = avatars[n]
               /\ avatar.name \notin DOMAIN avatars => avatars'[avatar.name] = avatar
      ]_vars

--------------------------------------------------------------------------
UserEvents == {"keydown", "keyup", "click", "frame"}

(* C17: key-down, key-up, click and frame events leave the player store,  *)
(* the avatar mapping and the local identity as they were; these change   *)
(* only when a message of the server is handled.                          *)
C17_InputLeavesStore ==
    /\ [][ last'.op \in UserEvents => UNCHANGED <<players, avatars, myPlayerId>> ]_vars
    /\ [][ <<players, avatars, myPlayerId>>' # <<players, avatars, myPlayerId>>
           => last'.op = "message" ]_vars

(* A key-down that sent a move intent, with the local player in the store *)
(* and an avatar registered.                                              *)
C17_Witness ==
    /\ last.op = "keydown"
    /\ "move" \in SentActions
    /\ HasLocalPlayer
    /\ DOMAIN avatars # {}

--------------------------------------------------------------------------
MoveIntent(direction) == [action |-> "move", direction |-> direction]

(* C18: while connected and joined, a key-down for a direction that is    *)
(* not held marks it held and sends exactly one move intent with that     *)
(* direction; a key-down for a direction already held sends nothing and   *)
(* changes no state; a directional move intent is sent only by an event   *)
(* that turns its direction from not held to held, so at most one per     *)
(* press.                                                                 *)
C18_KeyDownOnce ==
    /\ [][ (last'.op = "keydown" /\ ~Gated)
           => LET d == BoundDirection(last'.key)
              IN  IF d # Null /\ ~keyState[d]
                  THEN /\ keyState' = [keyState EXCEPT ![d] = TRUE]
                       /\ sent' = <<MoveIntent(d)>>
                  ELSE /\ sent' = <<>>
                       /\ UNCHANGED <<worldImage, myPlayerId, players, avatars,
                                      readyState, isConnected, avatarImageCache,
                                      keyState, isMoving, animationId, targetX,
                                      targetY, isClickMoving, animationTime,
                                      particles, viewportX, viewportY,
                                      viewportWidth, viewportHeight, drawn>>
         ]_vars
    /\ [][ \A d \in Directions :
              (\E i \in 1..Len(sent') : sent'[i] = MoveIntent(d))
              => (~keyState[d] /\ keyState'[d]) ]_vars

(* "w" went down while "up" was already held through ArrowUp: nothing was *)
(* sent.                                                                  *)
C18_Witness ==
    /\ last.op = "keydown"
    /\ last.key = "w"
    /\ ~Gated
    /\ keyState["up"]
    /\ sent = <<>>

--------------------------------------------------------------------------
(* C19: every frame tick advances the animation clock, sets the moving    *)
(* flag to "some direction is held", ages the particles by one tick and   *)
(* then draws, whatever the state of the connection.                      *)
C19_FrameTick ==
    [][ last'.op = "frame"
        => LET scene == draw(View(players, avatars, myPlayerId, viewportX,
                                  viewportY, viewportWidth, viewportHeight,
                                  worldImage, animationTime'),
                             avatarImageCache, updateParticles(particles))
           IN  /\ MagLess(animationTime, animationTime')
               /\ isMoving' = (\E d \in Directions : keyState[d])
               /\ particles' = scene.particles
               /\ drawn' = scene.drawn
               /\ avatarImageCache' = scene.cache ]_vars

--------------------------------------------------------------------------
(* The frame index the specification asks for, for a player drawn at      *)
(* clock value clock by the client whose identity is id.                  *)
ChosenFrame(player, id, clock) ==
    IF player.id = id /\ player.isMoving THEN ClockFloor(clock) % 3
    ELSE IF "animationFrame" \in DOMAIN player THEN player.animationFrame
    ELSE 0

(* The player's avatar is registered but has no frame sequence for the    *)
(* facing direction, or no frame at index frameIndex.                     *)
LacksFrame(player, avs, frameIndex) ==
    /\ player.avatar \in DOMAIN avs
    /\ \/ player.facing \notin DOMAIN avs[player.avatar].frames
       \/ frameIndex \notin 0..(Len(avs[player.avatar].frames[player.facing]) - 1)

DrawEvents == {"message", "avatar_onload"}

(* C20: in every draw, a drawn player shows the frame floor(clock) mod 3  *)
(* if it is the local player and moving, and otherwise the frame index    *)
(* the server sent (0 when it sent none); a player whose avatar lacks the *)
(* facing direction or the chosen index is not drawn, and particles are   *)
(* spawned only for moving players that are drawn.                        *)
C20_FrameChoice ==
    [][ last'.op \in DrawEvents
        => /\ \A d \in drawn' :
                 LET player == players'[d.id]
                     index  == ChosenFrame(player, myPlayerId', animationTime')
                 IN  /\ d.key = player.avatar \o "_" \o player.facing
                                              \o "_" \o ToString(index)
                     /\ ~LacksFrame(player, avatars', index)
           /\ \A id \in DOMAIN players' :
                 LacksFrame(players'[id], avatars',
                            ChosenFrame(players'[id], myPlayerId', animationTime'))
                 => id \notin {d.id : d \in drawn'}
           /\ Len(particles') - Len(particles)
                 <= Cardinality({d \in drawn' : players'[d.id].isMoving})
      ]_vars

(* The walking local player is on the canvas with frame 1 (the clock has  *)
(* passed 1.0), while the peer, whose frame index 5 is past the end of    *)
(* its sequence, is in the store and not drawn.                           *)
C20_Witness ==
    /\ last.op \in DrawEvents
    /\ \E d \in drawn : d.id = "p1" /\ d.key = "a1_down_1"
    /\ "p2" \in DOMAIN players
    /\ "animationFrame" \in DOMAIN players["p2"]
    /\ players["p2"].animationFrame = 5
    /\ "p2" \notin {d.id : d \in drawn}

--------------------------------------------------------------------------
(* C21: in every reachable state where the local identity is known and    *)
(* the local player is in the store at a position inside the world, the   *)
(* viewport is the centre-and-clamp of that position, whatever the        *)
(* interleaving of messages, the world image's load and window resizes.   *)
C21_AlwaysFramed ==
    ( /\ HasLocalPlayer
      /\ players[myPlayerId].x \in 0..worldWidth
      /\ players[myPlayerId].y \in 0..worldHeight )
    => /\ viewportX = Framed(players[myPlayerId].x, viewportWidth, worldWidth)
       /\ viewportY = Framed(players[myPlayerId].y, viewportHeight, worldHeight)

--------------------------------------------------------------------------
(* The oldest live particle has been through exactly a ticks. *)
OldestAt(a) == Len(particles) > 0 /\ particles[1].age = a

(* C22: with the frame loop ticking, every particle that is spawned is    *)
(* eventually removed from the live list, also when it is live while the  *)
(* connection is closed or the join has not completed: the oldest live    *)
(* particle never rests at one age for ever.  (A run in which the clock   *)
(* reaches the modelled horizon MaxLiveTenths is not judged.)             *)
C22_ParticlesEventuallyRemoved ==
    \A a \in 0..49 :
        []<>(~OldestAt(a) \/ ClockTenths(animationTime) >= MaxLiveTenths)

==========================================================================
